---- MODULE Spec2Model ----
(***************************************************************************)
(* Model of the address-discovery-and-sweep pipeline of src/App.tsx:       *)
(* the rate-limited request dispatcher (queuedFetch / processQueue), the   *)
(* gap-limited scanner (generateAddresses), the Registry (results) and the *)
(* sweep builder/signer (createIngestTx).                                  *)
(*                                                                         *)
(* Every await of the source is a suspension point; the code between two   *)
(* awaits runs atomically on the single JavaScript thread and is one       *)
(* action here.  The form fields (mnemonic, pin, pathPrefix, gap, offset)  *)
(* are the inputs of a click; a handler keeps the values of the render it  *)
(* was created in, which are the scan's and the sweep's captured locals.   *)
(* One scan invocation and one sweep invocation are tracked at a time.     *)
(***************************************************************************)
EXTENDS Integers, Sequences, FiniteSets, TLC

(***************************************************************************)
(* Bounds and input sets                                                   *)
(***************************************************************************)
MaxGap == 2

MaxScans == 2

MaxSweeps == 2

Mnemonics == {"m1", "m2", "bad"}

Pins == {""}

Seg(n, mark) == [n |-> n, mark |-> mark]

\* m/44'/0/0, the same path pasted with a typographic quote, and m/0'/0
PrefixBip44 == <<Seg(44, "apos"), Seg(0, ""), Seg(0, "")>>

PrefixBip44Curly == <<Seg(44, "curly"), Seg(0, ""), Seg(0, "")>>

PrefixSimple == <<Seg(0, "apos"), Seg(0, "")>>

Prefixes == {PrefixBip44, PrefixBip44Curly, PrefixSimple}

\* m/44h/0, which HD.derive rejects
PrefixMalformed == <<Seg(44, "h"), Seg(0, "")>>

ScanPrefixes == Prefixes \cup {PrefixMalformed}

Gaps == 0..MaxGap

Offsets == {0, 1}

NoResp == [kind |-> "none", body |-> <<>>]

NoItem == [caller |-> "none", op |-> "none", target |-> <<>>]

(***************************************************************************)
(* Secret, key derivation and address                                      *)
(***************************************************************************)
ValidMnemonic(mn) == mn # "bad"

ToSeed(mn, p) == <<mn, p>>

NormalizeQuotes(path) ==
    [i \in DOMAIN path |->
        IF path[i].mark = "curly" THEN Seg(path[i].n, "apos") ELSE path[i]]

FullPath(prefix, i) == NormalizeQuotes(Append(prefix, Seg(i, "")))

\* HD.derive throws on a component that is not digits with an optional '
ValidPath(path) == \A i \in DOMAIN path : path[i].mark \in {"", "apos"}

Derive(seed, fullPath) == [seed |-> seed, path |-> fullPath]

ToAddress(privKey) == [pkh |-> privKey]

(***************************************************************************)
(* The data provider's view of the chain                                   *)
(***************************************************************************)
Seed1 == ToSeed("m1", "")

AddrA == ToAddress(Derive(Seed1, FullPath(PrefixBip44, 0)))

AddrB == ToAddress(Derive(Seed1, FullPath(PrefixBip44, 1)))

AddrC == ToAddress(Derive(Seed1, FullPath(PrefixSimple, 0)))

AddrD == ToAddress(Derive(Seed1, FullPath(PrefixSimple, 1)))

Utxo(h, p, v) == [tx_hash |-> h, tx_pos |-> p, value |-> v]

WocUtxo(u, flag) ==
    [tx_hash |-> u.tx_hash, tx_pos |-> u.tx_pos, value |-> u.value,
     isSpentInMempoolTx |-> flag]

ChainUtxos(addr) ==
    CASE addr = AddrA -> <<Utxo("t1", 0, 1000)>>
      [] addr = AddrB -> <<Utxo("t1", 1, 2000), Utxo("t2", 1, 500)>>
      [] addr = AddrC -> <<Utxo("t2", 0, 3000)>>
      [] OTHER -> <<>>

UsedAddresses == {AddrA, AddrB, AddrC, AddrD}

Outpoint(u) == <<u.tx_hash, u.tx_pos>>

InitiallyPending == {<<"t2", 1>>}

OwnerOf(op) ==
    CHOOSE a \in UsedAddresses :
        \E i \in DOMAIN ChainUtxos(a) : Outpoint(ChainUtxos(a)[i]) = op

AllOutpoints ==
    UNION {{Outpoint(ChainUtxos(a)[i]) : i \in DOMAIN ChainUtxos(a)} :
              a \in UsedAddresses}

BeefOf(txid) == {txid, "t0"}

(***************************************************************************)
(* Sequence helpers                                                        *)
(***************************************************************************)
RECURSIVE SumValues(_)
SumValues(s) == IF s = <<>> THEN 0 ELSE Head(s).value + SumValues(Tail(s))

Range(s) == {s[i] : i \in DOMAIN s}

(***************************************************************************)
(* State                                                                   *)
(***************************************************************************)
VARIABLES
    requestQueue, isProcessing, workerPc, inFlight,
    workers,        \* history: the calls of processQueue that have not returned
    fetches,        \* history: the calls of fetch that have not settled
    elapsed,        \* Date.now() - lastRequestTime >= MIN_INTERVAL
    results, txHex, isLoading,
    consoleError,   \* the error logged by the most recent step
    alertMsg,       \* the alert shown by the most recent step
    mempoolSpent, scans, sweeps,
    scanPc, scanSeed, scanPrefix, scanGap, startOffset, index,
    consecutiveUnused, usedResults, scanResp,
    visited,        \* history: the address checks concluded by the running scan
    lastScan,       \* history: the locals of the scan that returned in the most recent step
    sweepPc, sweepResults, sweepMnemonic, sweepPin, sweepPathPrefix,
    utxosByTxid, beefCursor, beef, inputs, tx, templates, sweepResp

dispatcherVars == <<requestQueue, isProcessing, workerPc, inFlight, elapsed,
                    workers, fetches>>

scanLocals == <<scanSeed, scanPrefix, scanGap, startOffset, index,
                consecutiveUnused, usedResults, visited>>

scanVars == <<scanPc, scanLocals, scanResp>>

sweepCaptured == <<sweepResults, sweepMnemonic, sweepPin, sweepPathPrefix>>

sweepLocals == <<sweepCaptured, utxosByTxid, beefCursor, beef, inputs, tx,
                 templates>>

sweepVars == <<sweepPc, sweepLocals, sweepResp>>

uiVars == <<results, txHex, isLoading>>

sessionVars == <<scans, sweeps>>

vars == <<dispatcherVars, uiVars, consoleError, alertMsg, lastScan,
          mempoolSpent, sessionVars, scanVars, sweepVars>>

Err(msg, outpoint) == [msg |-> msg, outpoint |-> outpoint]

NoError == Err("", <<>>)

NoTx == [inputs |-> <<>>, sats |-> 0, size |-> 0, outputs |-> <<>>,
         reference |-> 0]

NoAlert == ""

NoScan == [returned |-> FALSE]

\* what a step that is not the return of a scan leaves of the step outputs
Quiet(err) ==
    /\ consoleError' = err
    /\ alertMsg' = NoAlert
    /\ lastScan' = NoScan

(***************************************************************************)
(* Data provider (WhatsOnChain) responses                                  *)
(***************************************************************************)
History(addr) == IF addr \in UsedAddresses THEN <<"tx">> ELSE <<>>

UnspentAll(addr, spent) ==
    [i \in DOMAIN ChainUtxos(addr) |->
        WocUtxo(ChainUtxos(addr)[i], Outpoint(ChainUtxos(addr)[i]) \in spent)]

\* "throws": the fetch rejects or the body cannot be read (the await throws);
\* "errobj": the body parses to an object that is not the expected list
RespKinds(op) ==
    IF op = "beef" THEN {"ok", "throws"} ELSE {"ok", "throws", "errobj"}

Respond(item, kind, spent) ==
    IF kind # "ok" THEN [kind |-> kind, body |-> <<>>]
    ELSE [kind |-> "ok",
          body |-> CASE item.op = "history" -> History(item.target)
                     [] item.op = "unspent" -> UnspentAll(item.target, spent)
                     [] OTHER -> <<item.target>>]

(***************************************************************************)
(* Rate-limited dispatcher: queuedFetch / processQueue                     *)
(***************************************************************************)
\* a worker that dispatches without looking at the time of the last request
WorkerLoopNoWait(q, w, f) ==
    IF q = <<>>
    THEN /\ isProcessing' = FALSE
         /\ workerPc' = "idle"
         /\ requestQueue' = q
         /\ inFlight' = NoItem
         /\ elapsed' = elapsed
         /\ workers' = w - 1
         /\ fetches' = f
    ELSE /\ isProcessing' = TRUE
         /\ workerPc' = "fetch"
         /\ requestQueue' = Tail(q)
         /\ inFlight' = Head(q)
         /\ elapsed' = FALSE
         /\ workers' = w
         /\ fetches' = f + 1

\* a worker that leaves isProcessing set when it finds the queue empty
WorkerLoopStaysBusy(q, w, f) ==
    IF q = <<>>
    THEN /\ isProcessing' = TRUE
         /\ workerPc' = "idle"
         /\ requestQueue' = q
         /\ inFlight' = NoItem
         /\ elapsed' = elapsed
         /\ workers' = w - 1
         /\ fetches' = f
    ELSE /\ isProcessing' = TRUE
         /\ IF ~elapsed
            THEN /\ workerPc' = "timer"
                 /\ requestQueue' = q
                 /\ inFlight' = NoItem
                 /\ elapsed' = elapsed
                 /\ workers' = w
                 /\ fetches' = f
            ELSE /\ workerPc' = "fetch"
                 /\ requestQueue' = Tail(q)
                 /\ inFlight' = Head(q)
                 /\ elapsed' = FALSE
                 /\ workers' = w
                 /\ fetches' = f + 1

\* processQueue from the loop test of line 28 to its next await: the timer of
\* line 32 when less than MIN_INTERVAL has passed since lastRequestTime, else
\* lastRequestTime = Date.now(), the shift and the fetch of lines 34-37
WorkerLoop(q, w, f) ==
    IF q = <<>>
    THEN /\ isProcessing' = FALSE
         /\ workerPc' = "idle"
         /\ requestQueue' = q
         /\ inFlight' = NoItem
         /\ elapsed' = elapsed
         /\ workers' = w - 1
         /\ fetches' = f
    ELSE /\ isProcessing' = TRUE
         /\ IF ~elapsed
            THEN /\ workerPc' = "timer"
                 /\ requestQueue' = q
                 /\ inFlight' = NoItem
                 /\ elapsed' = elapsed
                 /\ workers' = w
                 /\ fetches' = f
            ELSE /\ workerPc' = "fetch"
                 /\ requestQueue' = Tail(q)
                 /\ inFlight' = Head(q)
                 /\ elapsed' = FALSE
                 /\ workers' = w
                 /\ fetches' = f + 1

\* a queue that puts the new request in front (unshift instead of push)
queuedFetchUnshift(item) ==
    IF isProcessing
    THEN /\ requestQueue' = <<item>> \o requestQueue
         /\ UNCHANGED <<isProcessing, workerPc, inFlight, elapsed, workers,
                        fetches>>
    ELSE WorkerLoop(<<item>> \o requestQueue, workers + 1, fetches)

\* a queuedFetch that calls processQueue whether or not a worker runs
queuedFetchAlwaysStarts(item) ==
    WorkerLoop(Append(requestQueue, item), workers + 1, fetches)

\* lines 17-24; processQueue runs up to its first await inside the call
queuedFetch(item) ==
    IF isProcessing
    THEN /\ requestQueue' = Append(requestQueue, item)
         /\ UNCHANGED <<isProcessing, workerPc, inFlight, elapsed, workers,
                        fetches>>
    ELSE WorkerLoop(Append(requestQueue, item), workers + 1, fetches)

\* MIN_INTERVAL milliseconds have passed since the last dispatch
IntervalPasses ==
    /\ ~elapsed
    /\ elapsed' = TRUE
    /\ Quiet(NoError)
    /\ UNCHANGED <<requestQueue, isProcessing, workerPc, inFlight, workers,
                   fetches, uiVars,
                   mempoolSpent, sessionVars, scanVars, sweepVars>>

\* the timer of line 32 fires, not before the remaining interval has passed
TimerFire ==
    /\ workerPc = "timer"
    /\ elapsed
    /\ workerPc' = "fetch"
    /\ inFlight' = Head(requestQueue)
    /\ requestQueue' = Tail(requestQueue)
    /\ elapsed' = FALSE
    /\ Quiet(NoError)
    /\ fetches' = fetches + 1
    /\ UNCHANGED <<isProcessing, workers, uiVars, mempoolSpent, sessionVars,
                   scanVars,
                   sweepVars>>

\* a worker that stops at the first failed fetch, leaving the queue as it is
FetchSettleStopOnError ==
    /\ workerPc = "fetch"
    /\ \E kind \in RespKinds(inFlight.op) :
          /\ IF inFlight.caller = "scan"
             THEN /\ scanResp' = Respond(inFlight, kind, mempoolSpent)
                  /\ UNCHANGED sweepResp
             ELSE /\ sweepResp' = Respond(inFlight, kind, mempoolSpent)
                  /\ UNCHANGED scanResp
          /\ IF kind = "throws"
             THEN /\ workerPc' = "idle"
                  /\ inFlight' = NoItem
                  /\ workers' = workers - 1
                  /\ fetches' = fetches - 1
                  /\ UNCHANGED <<requestQueue, isProcessing, elapsed>>
             ELSE WorkerLoop(requestQueue, workers, fetches - 1)
    /\ Quiet(NoError)
    /\ UNCHANGED <<uiVars, mempoolSpent, sessionVars, scanPc, scanLocals,
                   sweepPc, sweepLocals>>

\* the fetch of line 37 settles: resolve or reject of the item's promise
\* (lines 38-40), then the loop of line 28 again
FetchSettle ==
    /\ workerPc = "fetch"
    /\ \E kind \in RespKinds(inFlight.op) :
          IF inFlight.caller = "scan"
          THEN /\ scanResp' = Respond(inFlight, kind, mempoolSpent)
               /\ UNCHANGED sweepResp
          ELSE /\ sweepResp' = Respond(inFlight, kind, mempoolSpent)
               /\ UNCHANGED scanResp
    /\ WorkerLoop(requestQueue, workers, fetches - 1)
    /\ Quiet(NoError)
    /\ UNCHANGED <<uiVars, mempoolSpent, sessionVars, scanPc, scanLocals,
                   sweepPc, sweepLocals>>

(***************************************************************************)
(* Registry merge: the setResults updater of generateAddresses             *)
(***************************************************************************)
RECURSIVE AddAddresses(_, _)
AddAddresses(set, rs) ==
    IF rs = <<>> THEN set
    ELSE IF \E i \in DOMAIN set : set[i] = Head(rs).address
         THEN AddAddresses(set, Tail(rs))
         ELSE AddAddresses(Append(set, Head(rs).address), Tail(rs))

Find(rs, address) ==
    IF \E i \in DOMAIN rs : rs[i].address = address
    THEN <<rs[CHOOSE i \in DOMAIN rs :
                 /\ rs[i].address = address
                 /\ \A j \in 1..(i - 1) : rs[j].address # address]>>
    ELSE <<>>

\* a merge in which the new finding for an address replaces the entry
UpdatedResultsPreferNew(r, used) ==
    LET uniqueResults == AddAddresses(AddAddresses(<<>>, r), used)
    IN  [i \in DOMAIN uniqueResults |->
            IF Find(used, uniqueResults[i]) # <<>>
            THEN Find(used, uniqueResults[i])[1]
            ELSE Find(r, uniqueResults[i])[1]]

\* a merge that appends the new findings to the Registry
AppendedResults(r, used) == r \o used

\* setResults(usedResults), as in unnamed/part_003:125
ReplacedResults(r, used) == used

\* lines 135-142
UpdatedResults(r, used) ==
    LET uniqueResults == AddAddresses(AddAddresses(<<>>, r), used)
    IN  [i \in DOMAIN uniqueResults |->
            IF Find(r, uniqueResults[i]) # <<>>
            THEN Find(r, uniqueResults[i])[1]
            ELSE Find(used, uniqueResults[i])[1]]

(***************************************************************************)
(* Address scanner: generateAddresses                                      *)
(***************************************************************************)
\* an address check that was concluded: the index, the address, whether the
\* history made it used, the number of unspent outputs listed for it, and
\* whether the history body was a list
Check(i, address, isUsed, count, listed) ==
    [index |-> i, address |-> address, isUsed |-> isUsed, count |-> count,
     listed |-> listed]

\* lines 135-144: merge the findings, clear txHex and the busy status
ScanFinish(start, gap, i, log, used, err) ==
    /\ results' = UpdatedResults(results, used)
    /\ txHex' = <<>>
    /\ isLoading' = ""
    /\ consoleError' = err
    /\ alertMsg' = NoAlert
    /\ lastScan' = [returned |-> TRUE, startOffset |-> start, gap |-> gap,
                    index |-> i, visited |-> log, findings |-> used,
                    error |-> err]
    /\ scanPc' = "idle"
    /\ scanSeed' = <<>>
    /\ scanPrefix' = <<>>
    /\ scanGap' = 0
    /\ startOffset' = 0
    /\ index' = 0
    /\ consecutiveUnused' = 0
    /\ usedResults' = <<>>
    /\ visited' = <<>>
    /\ UNCHANGED dispatcherVars

\* a catch block that also empties usedResults
ScanCatchDropping(start, gap, i, log, used, err) ==
    ScanFinish(start, gap, i, log, <<>>, err)

\* lines 129-132: the error is logged and the loop left
ScanCatch(start, gap, i, log, used, err) ==
    ScanFinish(start, gap, i, log, used, err)

\* a loop that goes on until consecutiveUnused exceeds the gap limit
ScanLoopInclusive(seed, prefix, gap, start, i, unused, used, log) ==
    IF unused <= gap
    THEN IF ~ValidPath(FullPath(prefix, i))
         THEN ScanCatch(start, gap, i, log, used, Err("external", <<>>))
         ELSE /\ scanSeed' = seed
              /\ scanPrefix' = prefix
              /\ scanGap' = gap
              /\ startOffset' = start
              /\ index' = i
              /\ consecutiveUnused' = unused
              /\ usedResults' = used
              /\ visited' = log
              /\ isLoading' = "Checking address"
              /\ Quiet(NoError)
              /\ scanPc' = "history"
              /\ queuedFetch([caller |-> "scan", op |-> "history",
                              target |-> ToAddress(Derive(seed, FullPath(prefix, i)))])
              /\ UNCHANGED <<results, txHex>>
    ELSE ScanFinish(start, gap, i, log, used, NoError)

\* the while test of line 100 and the loop body up to its first await
ScanLoop(seed, prefix, gap, start, i, unused, used, log) ==
    IF unused < gap
    THEN IF ~ValidPath(FullPath(prefix, i))
         THEN ScanCatch(start, gap, i, log, used, Err("external", <<>>))
         ELSE /\ scanSeed' = seed
              /\ scanPrefix' = prefix
              /\ scanGap' = gap
              /\ startOffset' = start
              /\ index' = i
              /\ consecutiveUnused' = unused
              /\ usedResults' = used
              /\ visited' = log
              /\ isLoading' = "Checking address"
              /\ Quiet(NoError)
              /\ scanPc' = "history"
              /\ queuedFetch([caller |-> "scan", op |-> "history",
                              target |-> ToAddress(Derive(seed, FullPath(prefix, i)))])
              /\ UNCHANGED <<results, txHex>>
    ELSE ScanFinish(start, gap, i, log, used, NoError)

\* the click on "Derive and Check Balance of Addresses"
ScanStart ==
    /\ isLoading = ""
    /\ scanPc = "idle"
    /\ scans < MaxScans
    /\ \E mn \in Mnemonics, p \in Pins, prefix \in ScanPrefixes,
          gap \in Gaps, offset \in Offsets :
          IF ~ValidMnemonic(mn)
          THEN /\ isLoading' = "Generating seed..."
               /\ consoleError' = NoError
               /\ alertMsg' = "Invalid mnemonic or PIN"
               /\ lastScan' = NoScan
               /\ UNCHANGED <<results, txHex, dispatcherVars, scanPc, scanLocals>>
          ELSE ScanLoop(ToSeed(mn, p), prefix, gap, offset, offset, 0, <<>>, <<>>)
    /\ scans' = scans + 1
    /\ UNCHANGED <<mempoolSpent, sweeps, scanResp, sweepVars>>

\* line 106: the address of the check in progress
inFlightAddress == ToAddress(Derive(scanSeed, FullPath(scanPrefix, index)))

\* a test that takes every address for used
IsUsedAlways(resp) == TRUE

\* lines 112-113: history.length > 0 of the parsed body
IsUsed(resp) == resp.kind = "ok" /\ Len(resp.body) > 0

\* lines 111-113 and, for an unused address, 126-128
ScanHistoryDone ==
    /\ scanPc = "history"
    /\ scanResp # NoResp
    /\ scanResp' = NoResp
    /\ IF scanResp.kind = "throws"
       THEN ScanCatch(startOffset, scanGap, index, visited, usedResults,
                      Err("external", <<>>))
       ELSE IF IsUsed(scanResp)
       THEN /\ scanPc' = "unspent"
            /\ Quiet(NoError)
            /\ queuedFetch([caller |-> "scan", op |-> "unspent",
                   target |-> ToAddress(Derive(scanSeed, FullPath(scanPrefix, index)))])
            /\ UNCHANGED <<uiVars, scanLocals>>
       ELSE ScanLoop(scanSeed, scanPrefix, scanGap, startOffset, index + 1,
                     consecutiveUnused + 1, usedResults,
                     Append(visited,
                            Check(index, inFlightAddress, FALSE, 0,
                                  scanResp.kind = "ok")))
    /\ UNCHANGED <<mempoolSpent, sessionVars, sweepVars>>

\* a test that lets every used address into the findings
HasUnspentAlways(utxos) == TRUE

\* a test that asks for more than one unspent output
HasSeveralUnspent(utxos) == Len(utxos) > 1

\* line 119: utxos.result.length > 0
HasUnspent(utxos) == Len(utxos) > 0

\* an entry that also keeps the key of its address
NewResultWithKey(utxos) ==
    [index |-> index,
     address |-> ToAddress(Derive(scanSeed, FullPath(scanPrefix, index))),
     balance |-> SumValues(utxos),
     count |-> Len(utxos),
     utxos |-> utxos,
     pathPrefix |-> scanPrefix,
     privKey |-> Derive(scanSeed, FullPath(scanPrefix, index))]

\* lines 121-122: usedResults.push({ index, address, balance, count, utxos, pathPrefix })
NewResult(utxos) ==
    [index |-> index,
     address |-> ToAddress(Derive(scanSeed, FullPath(scanPrefix, index))),
     balance |-> SumValues(utxos),
     count |-> Len(utxos),
     utxos |-> utxos,
     pathPrefix |-> scanPrefix]

\* lines 117-124 and 128
ScanUnspentDone ==
    /\ scanPc = "unspent"
    /\ scanResp # NoResp
    /\ scanResp' = NoResp
    /\ IF scanResp.kind # "ok"
       THEN ScanCatch(startOffset, scanGap, index, visited, usedResults,
                      Err("external", <<>>))
       ELSE ScanLoop(scanSeed, scanPrefix, scanGap, startOffset, index + 1, 0,
                     IF HasUnspent(scanResp.body)
                     THEN Append(usedResults, NewResult(scanResp.body))
                     ELSE usedResults,
                     Append(visited,
                            Check(index, inFlightAddress, TRUE,
                                  Len(scanResp.body), TRUE)))
    /\ UNCHANGED <<mempoolSpent, sessionVars, sweepVars>>

(***************************************************************************)
(* Custodian (WalletClient): isAuthenticated, createAction, signAction     *)
(***************************************************************************)
NegligibleFee == 1

MaxSatsPerKb == 10

UnlockingScriptLength == 108

\* (fee, size) pairs the custodian's proposal may carry
Quotes == {<<1, 50>>, <<2, 199>>, <<2, 200>>, <<3, 200>>}

\* inputs a faulty custodian may add to its proposal
ForeignOutpoints == {<<"t1", 7>>, <<"t9", 0>>}

\* the outputs the custodian's utxo manager assigns to its proposal
WalletOutputs == <<"wallet">>

\* signableTransaction: tx and the reference the custodian issues for the
\* attempt, one reference for each createAction it answers
Proposals(ins) ==
    {[inputs |-> [i \in DOMAIN ins |-> ins[i].outpoint] \o extra,
      sats |-> q[1], size |-> q[2], outputs |-> WalletOutputs,
      reference |-> sweeps] :
        extra \in {<<>>} \cup {<<op>> : op \in ForeignOutpoints},
        q \in Quotes}

\* the network accepts a spend of unspent outputs signed by their owners
CanBroadcast(t, keys, spent) ==
    \A i \in DOMAIN t.inputs :
        /\ t.inputs[i] \in AllOutpoints
        /\ t.inputs[i] \notin spent
        /\ ToAddress(keys[i]) = OwnerOf(t.inputs[i])

\* lines 206-210: the arguments of createAction
CreateActionRequest ==
    [inputBEEF |-> beef,
     description |-> "Ingesting Swept funds from mnemonic",
     inputs |-> inputs]

\* P2PKH().unlock(privateKey, signOutputs, anyoneCanPay): the template
P2PKHUnlock(privKey, signOutputs, anyoneCanPay) ==
    [privKey |-> privKey, signOutputs |-> signOutputs,
     anyoneCanPay |-> anyoneCanPay]

\* the template of unnamed/part_003:172
UnlockingScriptTemplateNoneAcp(privKey) == P2PKHUnlock(privKey, "none", TRUE)

\* line 235: new P2PKH().unlock(privKey), signOutputs 'all', anyoneCanPay false
UnlockingScriptTemplate(privKey) == P2PKHUnlock(privKey, "all", FALSE)

\* the parts of transaction t that a signature of input i commits to
SighashPreimage(t, i, signOutputs, anyoneCanPay) ==
    [spent |-> t.inputs[i],
     inputs |-> IF anyoneCanPay THEN <<t.inputs[i]>> ELSE t.inputs,
     outputs |-> CASE signOutputs = "all" -> t.outputs
                   [] signOutputs = "single" ->
                        IF i \in DOMAIN t.outputs THEN <<t.outputs[i]>> ELSE <<>>
                   [] OTHER -> <<>>]

PublicKey(privKey) == [pub |-> privKey]

\* tx.sign() for input i: the unlocking script <signature> <public key>
SignInput(template, t, i) ==
    [signature |-> [signer |-> PublicKey(template.privKey),
                    signOutputs |-> template.signOutputs,
                    anyoneCanPay |-> template.anyoneCanPay,
                    preimage |-> SighashPreimage(t, i, template.signOutputs,
                                                 template.anyoneCanPay)],
     publicKey |-> PublicKey(template.privKey)]

\* spends numbered from one, as the inputs are here
SpendsOneBased(t, keys) ==
    [i \in 1..Len(t.inputs) |->
        [unlockingScript |->
            SignInput(UnlockingScriptTemplate(keys[i]), t, i)]]

\* lines 241-247: spends[index] for index 0..n-1 of tx.inputs
Spends(t, keys) ==
    [i \in 0..(Len(t.inputs) - 1) |->
        [unlockingScript |->
            SignInput(UnlockingScriptTemplate(keys[i + 1]), t, i + 1)]]

\* lines 251-258: the arguments of signAction
SignActionRequest ==
    [reference |-> tx.reference,
     spends |-> Spends(tx, templates),
     options |-> [acceptDelayedBroadcast |-> FALSE, returnTXIDOnly |-> TRUE]]

\* the custodian completes the action it issued the reference for, given an
\* unlocking script for each of its inputs
Completes(req) ==
    /\ req.reference = sweeps
    /\ DOMAIN req.spends = 0..(Len(tx.inputs) - 1)

WalletResponses ==
    CASE sweepPc = "auth" ->
            {[kind |-> "throw", body |-> <<>>],
             [kind |-> "ok", body |-> <<FALSE>>],
             [kind |-> "ok", body |-> <<TRUE>>]}
      [] sweepPc = "create" ->
            {[kind |-> "throw", body |-> <<>>], [kind |-> "ok", body |-> <<>>]}
            \cup {[kind |-> "ok", body |-> <<p>>] :
                      p \in Proposals(CreateActionRequest.inputs)}
      [] sweepPc = "signAction" ->
            {[kind |-> "throw", body |-> <<>>], [kind |-> "ok", body |-> <<>>]}
            \cup (IF /\ Completes(SignActionRequest)
                      /\ CanBroadcast(tx, templates, mempoolSpent)
                  THEN {[kind |-> "ok", body |-> <<"txid">>]} ELSE {})
      [] OTHER -> {}

WalletSettle ==
    /\ sweepPc \in {"auth", "create", "signAction"}
    /\ sweepResp = NoResp
    /\ \E r \in WalletResponses :
          /\ sweepResp' = r
          /\ mempoolSpent' =
                IF sweepPc = "signAction" /\ r.kind = "ok" /\ r.body # <<>>
                THEN mempoolSpent \cup Range(tx.inputs)
                ELSE mempoolSpent
    /\ Quiet(NoError)
    /\ UNCHANGED <<dispatcherVars, uiVars, sessionVars, scanVars, sweepPc,
                   sweepLocals>>

(***************************************************************************)
(* Key-for-Input map: utxosByTxid of createIngestTx                        *)
(***************************************************************************)
KeyRec(vout, privKey, value) == [vout |-> vout, privKey |-> privKey, value |-> value]

MapIndex(map, txid) ==
    IF \E i \in DOMAIN map : map[i].txid = txid
    THEN CHOOSE i \in DOMAIN map : map[i].txid = txid
    ELSE 0

\* a map that opens a new list for every output
PushUtxosUngrouped(map, utxos, privKey) ==
    map \o [j \in DOMAIN utxos |->
              [txid |-> utxos[j].tx_hash,
               list |-> <<KeyRec(utxos[j].tx_pos, privKey, utxos[j].value)>>]]

\* lines 176-182
RECURSIVE PushUtxos(_, _, _)
PushUtxos(map, utxos, privKey) ==
    IF utxos = <<>> THEN map
    ELSE LET u == Head(utxos)
             m1 == IF MapIndex(map, u.tx_hash) = 0
                   THEN Append(map, [txid |-> u.tx_hash, list |-> <<>>])
                   ELSE map
             k  == MapIndex(m1, u.tx_hash)
             m2 == [m1 EXCEPT ![k].list =
                        Append(@, KeyRec(u.tx_pos, privKey, u.value))]
         IN  PushUtxos(m2, Tail(utxos), privKey)

\* derivation along the stored prefix as typed, typographic quote included
EntryKeyAsTyped(masterSeed, res) ==
    Derive(masterSeed, Append(res.pathPrefix, Seg(res.index, "")))

\* derivation from the prefix currently in the form, as in unnamed/part_003:145
EntryKeyCurrentPrefix(masterSeed, res) ==
    Derive(masterSeed, FullPath(sweepPathPrefix, res.index))

\* lines 172-174
EntryKey(masterSeed, res) == Derive(masterSeed, FullPath(res.pathPrefix, res.index))

\* lines 170-183
RECURSIVE BuildKeyMap(_, _, _)
BuildKeyMap(map, rs, masterSeed) ==
    IF rs = <<>> THEN map
    ELSE BuildKeyMap(PushUtxos(map, Head(rs).utxos, EntryKey(masterSeed, Head(rs))),
                     Tail(rs), masterSeed)

(***************************************************************************)
(* Fee gate and key resolution                                             *)
(***************************************************************************)
\* satsPerKb > 10 with satsPerKb = sats / (size / 1000)
SatsPerKbExceeds(sats, size, limit) == sats * 1000 > limit * size

\* the gate with the 110 sats/kb threshold of SECURITY_CHECKLIST.md
FeeTooHigh110(sats, size) ==
    sats > NegligibleFee /\ SatsPerKbExceeds(sats, size, 110)

\* the gate with an inclusive comparison, satsPerKb >= 10
FeeTooHighInclusive(sats, size) ==
    sats > NegligibleFee /\ sats * 1000 >= MaxSatsPerKb * size

\* line 223
FeeTooHigh(sats, size) ==
    sats > NegligibleFee /\ SatsPerKbExceeds(sats, size, MaxSatsPerKb)

\* a lookup that matches on the transaction id alone
LookupKeyByTxid(map, txid, vout) ==
    LET k == MapIndex(map, txid)
    IN  IF k = 0 THEN [status |-> "TypeError", privKey |-> <<>>]
        ELSE [status |-> "ok", privKey |-> map[k].list[1].privKey]

\* line 231: utxosByTxid[txid].find(utxo => utxo.vout === sourceOutputIndex)?.privKey
LookupKey(map, txid, vout) ==
    LET k == MapIndex(map, txid)
    IN  IF k = 0 THEN [status |-> "TypeError", privKey |-> <<>>]
        ELSE LET list == map[k].list
             IN  IF \E j \in DOMAIN list : list[j].vout = vout
                 THEN [status |-> "ok",
                       privKey |-> list[CHOOSE j \in DOMAIN list :
                                      /\ list[j].vout = vout
                                      /\ \A h \in 1..(j - 1) : list[h].vout # vout].privKey]
                 ELSE [status |-> "undefined", privKey |-> <<>>]

\* lines 229-236: the forEach over tx.inputs, stopped by the first throw
RECURSIVE AssignTemplates(_, _, _)
AssignTemplates(map, ins, done) ==
    IF ins = <<>> THEN [error |-> NoError, templates |-> done]
    ELSE LET found == LookupKey(map, Head(ins)[1], Head(ins)[2])
         IN  CASE found.status = "TypeError" ->
                    [error |-> Err("TypeError", <<>>), templates |-> done]
               [] found.status = "undefined" ->
                    [error |-> Err("Failed to find private key for input", Head(ins)),
                     templates |-> done]
               [] OTHER ->
                    AssignTemplates(map, Tail(ins), Append(done, found.privKey))

(***************************************************************************)
(* Sweep builder/signer: createIngestTx                                    *)
(***************************************************************************)
SweepReset ==
    /\ sweepPc' = "idle"
    /\ sweepResults' = <<>>
    /\ sweepMnemonic' = ""
    /\ sweepPin' = ""
    /\ sweepPathPrefix' = <<>>
    /\ utxosByTxid' = <<>>
    /\ beefCursor' = 0
    /\ beef' = {}
    /\ inputs' = <<>>
    /\ tx' = NoTx
    /\ templates' = <<>>

\* a return that also clears the transaction result
SweepReturnResetting(msg) ==
    /\ SweepReset
    /\ consoleError' = NoError
    /\ alertMsg' = msg
    /\ lastScan' = NoScan
    /\ txHex' = <<>>
    /\ UNCHANGED <<dispatcherVars, results, isLoading>>

\* alert and return, lines 150-161
SweepReturn(msg) ==
    /\ SweepReset
    /\ consoleError' = NoError
    /\ alertMsg' = msg
    /\ lastScan' = NoScan
    /\ UNCHANGED <<dispatcherVars, uiVars>>

\* a catch block that also clears the Registry
SweepAbortClearing(err) ==
    /\ SweepReset
    /\ Quiet(err)
    /\ isLoading' = ""
    /\ results' = <<>>
    /\ UNCHANGED <<dispatcherVars, txHex>>

\* catch and finally, lines 269-273
SweepAbort(err) ==
    /\ SweepReset
    /\ Quiet(err)
    /\ isLoading' = ""
    /\ UNCHANGED <<dispatcherVars, results, txHex>>

CreateActionInput(txid, rec) ==
    [inputDescription |-> "from mnemonic",
     unlockingScriptLength |-> UnlockingScriptLength,
     outpoint |-> <<txid, rec.vout>>]

\* one input for each source transaction instead of one for each output
InputsOfFirst(entry) == <<CreateActionInput(entry.txid, entry.list[1])>>

\* lines 195-201
InputsOf(entry) ==
    [j \in DOMAIN entry.list |-> CreateActionInput(entry.txid, entry.list[j])]

\* a loop that leaves after the first source transaction
SweepBeefLoopSkipping(map, cursor, merged, ins) ==
    /\ utxosByTxid' = map
    /\ beef' = merged
    /\ inputs' = ins
    /\ tx' = NoTx
    /\ templates' = <<>>
    /\ sweepMnemonic' = ""
    /\ sweepPin' = ""
    /\ sweepPathPrefix' = <<>>
    /\ Quiet(NoError)
    /\ UNCHANGED <<sweepResults, results, txHex>>
    /\ IF cursor <= 1 /\ cursor <= Len(map)
       THEN /\ beefCursor' = cursor
            /\ sweepPc' = "beef"
            /\ isLoading' = "Fetching BEEF"
            /\ queuedFetch([caller |-> "sweep", op |-> "beef",
                            target |-> map[cursor].txid])
       ELSE /\ beefCursor' = cursor
            /\ sweepPc' = "create"
            /\ isLoading' = "Creating outputs for Wallet"
            /\ UNCHANGED dispatcherVars

\* the for loop of line 188 up to its await, then createAction of line 206
SweepBeefLoop(map, cursor, merged, ins) ==
    /\ utxosByTxid' = map
    /\ beef' = merged
    /\ inputs' = ins
    /\ tx' = NoTx
    /\ templates' = <<>>
    /\ sweepMnemonic' = ""
    /\ sweepPin' = ""
    /\ sweepPathPrefix' = <<>>
    /\ Quiet(NoError)
    /\ UNCHANGED <<sweepResults, results, txHex>>
    /\ IF cursor <= Len(map)
       THEN /\ beefCursor' = cursor
            /\ sweepPc' = "beef"
            /\ isLoading' = "Fetching BEEF"
            /\ queuedFetch([caller |-> "sweep", op |-> "beef",
                            target |-> map[cursor].txid])
       ELSE /\ beefCursor' = cursor
            /\ sweepPc' = "create"
            /\ isLoading' = "Creating outputs for Wallet"
            /\ UNCHANGED dispatcherVars

\* createIngestTx from its call to the await of line 149; results, mnemonic,
\* pin and pathPrefix are those of the render the handler belongs to
createIngestTx ==
    /\ sweepPc = "idle"
    /\ sweeps < MaxSweeps
    /\ \E mn \in Mnemonics, p \in Pins, prefix \in Prefixes :
          /\ sweepMnemonic' = mn
          /\ sweepPin' = p
          /\ sweepPathPrefix' = prefix
    /\ sweepResults' = results
    /\ sweepPc' = "auth"
    /\ Quiet(NoError)
    /\ sweeps' = sweeps + 1
    /\ UNCHANGED <<dispatcherVars, uiVars, mempoolSpent, scans, scanVars,
                   utxosByTxid, beefCursor, beef, inputs, tx, templates,
                   sweepResp>>

\* the click on "Sweep Into My Local Wallet": the button is rendered only
\* while results is not empty and is disabled while isLoading is set
SweepStart ==
    /\ isLoading = ""
    /\ Len(results) > 0
    /\ createIngestTx

\* createIngestTx called while results is empty (not through the button)
SweepInvoke ==
    /\ Len(results) = 0
    /\ createIngestTx

\* a test that looks at the thrown error only
NotAuthenticatedThrowOnly(resp) == resp.kind = "throw"

\* lines 149-157: isAuthenticated throws or reports authenticated false
NotAuthenticated(resp) == resp.kind = "throw" \/ resp.body = <<FALSE>>

SweepAuthDone ==
    /\ sweepPc = "auth"
    /\ sweepResp # NoResp
    /\ sweepResp' = NoResp
    /\ IF NotAuthenticated(sweepResp)
       THEN SweepReturn("Unable to connect to wallet")
       ELSE IF Len(sweepResults) = 0
       THEN SweepReturn("No outputs found to ingest")
       ELSE IF ~ValidMnemonic(sweepMnemonic)
       THEN SweepAbort(Err("external", <<>>))
       ELSE SweepBeefLoop(
                BuildKeyMap(<<>>, sweepResults, ToSeed(sweepMnemonic, sweepPin)),
                1, {}, <<>>)
    /\ UNCHANGED <<mempoolSpent, sessionVars, scanVars>>

SweepBeefDone ==
    /\ sweepPc = "beef"
    /\ sweepResp # NoResp
    /\ sweepResp' = NoResp
    /\ IF sweepResp.kind # "ok"
       THEN SweepAbort(Err("external", <<>>))
       ELSE SweepBeefLoop(utxosByTxid, beefCursor + 1,
                          beef \cup BeefOf(sweepResp.body[1]),
                          inputs \o InputsOf(utxosByTxid[beefCursor]))
    /\ UNCHANGED <<mempoolSpent, sessionVars, scanVars>>

SweepCreateDone ==
    /\ sweepPc = "create"
    /\ sweepResp # NoResp
    /\ sweepResp' = NoResp
    /\ IF sweepResp.kind = "throw"
       THEN SweepAbort(Err("external", <<>>))
       ELSE IF sweepResp.body = <<>>
       THEN SweepAbort(Err("Failed to create action", <<>>))
       ELSE LET proposed == sweepResp.body[1]
                signed == AssignTemplates(utxosByTxid, proposed.inputs, <<>>)
            IN  IF FeeTooHigh(proposed.sats, proposed.size)
                THEN SweepAbort(Err("Fee too high, aborting", <<>>))
                ELSE IF signed.error # NoError
                THEN SweepAbort(signed.error)
                ELSE /\ tx' = proposed
                     /\ templates' = signed.templates
                     /\ sweepPc' = "sign"
                     /\ isLoading' = "Signing Tx"
                     /\ Quiet(NoError)
                     /\ UNCHANGED <<dispatcherVars, results, txHex, sweepCaptured,
                                    utxosByTxid, beefCursor, beef, inputs>>
    /\ UNCHANGED <<mempoolSpent, sessionVars, scanVars>>

\* await tx.fee(); await tx.sign(); the spends; signAction called
SweepSignDone ==
    /\ sweepPc = "sign"
    /\ \E signedOk \in BOOLEAN :
          IF signedOk
          THEN /\ sweepPc' = "signAction"
               /\ isLoading' = "Broadcasting..."
               /\ Quiet(NoError)
               /\ UNCHANGED <<dispatcherVars, results, txHex, sweepLocals>>
          ELSE SweepAbort(Err("external", <<>>))
    /\ UNCHANGED <<mempoolSpent, sessionVars, scanVars, sweepResp>>

\* a txid test that accepts an empty identifier
TxidAlwaysPresent(body) == TRUE

\* line 261: the txid returned by signAction is non-empty
TxidPresent(body) == body # <<>>

SweepSignActionDone ==
    /\ sweepPc = "signAction"
    /\ sweepResp # NoResp
    /\ sweepResp' = NoResp
    /\ IF sweepResp.kind = "throw"
       THEN SweepAbort(Err("external", <<>>))
       ELSE IF ~TxidPresent(sweepResp.body)
       THEN SweepAbort(Err("Failed to broadcast transaction", <<>>))
       ELSE /\ SweepReset
            /\ txHex' = tx.inputs
            /\ results' = <<>>
            /\ isLoading' = ""
            /\ Quiet(NoError)
            /\ UNCHANGED dispatcherVars
    /\ UNCHANGED <<mempoolSpent, sessionVars, scanVars>>

(***************************************************************************)
(* Specification                                                           *)
(***************************************************************************)
Init ==
    /\ requestQueue = <<>>
    /\ isProcessing = FALSE
    /\ workerPc = "idle"
    /\ inFlight = NoItem
    /\ results = <<>>
    /\ txHex = <<>>
    /\ isLoading = ""
    /\ consoleError = NoError
    /\ mempoolSpent = InitiallyPending
    /\ scans = 0
    /\ sweeps = 0
    /\ scanPc = "idle"
    /\ scanSeed = <<>>
    /\ scanPrefix = <<>>
    /\ scanGap = 0
    /\ index = 0
    /\ consecutiveUnused = 0
    /\ usedResults = <<>>
    /\ scanResp = NoResp
    /\ sweepPc = "idle"
    /\ sweepResults = <<>>
    /\ sweepMnemonic = ""
    /\ sweepPin = ""
    /\ sweepPathPrefix = <<>>
    /\ utxosByTxid = <<>>
    /\ beefCursor = 0
    /\ beef = {}
    /\ inputs = <<>>
    /\ tx = NoTx
    /\ templates = <<>>
    /\ sweepResp = NoResp
    /\ elapsed = TRUE
    /\ workers = 0
    /\ fetches = 0
    /\ alertMsg = NoAlert
    /\ lastScan = NoScan
    /\ startOffset = 0
    /\ visited = <<>>

Next ==
    \/ IntervalPasses
    \/ TimerFire
    \/ FetchSettle
    \/ WalletSettle
    \/ ScanStart
    \/ ScanHistoryDone
    \/ ScanUnspentDone
    \/ SweepStart
    \/ SweepAuthDone
    \/ SweepBeefDone
    \/ SweepCreateDone
    \/ SweepSignDone
    \/ SweepSignActionDone

Spec == Init /\ [][Next]_vars

\* the same program with createIngestTx also called on an empty Registry
NextEntry == Next \/ SweepInvoke

SpecEntry == Init /\ [][NextEntry]_vars

(***************************************************************************)
(* Properties                                                              *)
(***************************************************************************)
\* a step of createIngestTx that delivers a signAction result with a txid
SweepSucceeds ==
    /\ sweepPc = "signAction"
    /\ sweepResp.kind = "ok"
    /\ sweepResp.body # <<>>
    /\ sweepPc' = "idle"

\* C1: every step of a sweep attempt other than its successful completion -
\* each intermediate step and each failure (custodian unreachable or
\* unauthenticated, secret parsing, ancestry fetch, no signable transaction,
\* fee gate, key lookup, signing, signAction throwing or returning no txid) -
\* leaves the Registry exactly as it was.
C1_FailedSweepKeepsRegistry ==
    [][(sweepPc' # sweepPc /\ ~SweepSucceeds) => results' = results]_vars

C1_Witness ==
    /\ sweepPc = "idle"
    /\ consoleError.msg = "Failed to broadcast transaction"
    /\ Len(results) > 0

\* C2: the step that completes a successful sweep leaves the Registry empty,
\* and the Registry goes from non-empty to empty only in a step in which
\* signAction of the running attempt has returned a non-empty txid.
C2_ClearOnlyAfterBroadcast ==
    [][/\ SweepSucceeds => results' = <<>>
       /\ (results # <<>> /\ results' = <<>>) => SweepSucceeds]_vars

C2_Witness ==
    /\ sweepPc = "idle"
    /\ sweeps > 0
    /\ txHex # <<>>
    /\ results = <<>>
    /\ mempoolSpent # InitiallyPending

\* the step in which createIngestTx receives the custodian's proposal
ProposalHandled ==
    /\ sweepPc = "create"
    /\ sweepResp.kind = "ok"
    /\ sweepResp.body # <<>>
    /\ sweepResp' = NoResp

RequestedOutpoints == [i \in DOMAIN inputs |-> inputs[i].outpoint]

C4_WitnessNegligible ==
    /\ sweepPc = "sign"
    /\ tx.sats = 1
    /\ tx.sats * 1000 > 10 * tx.size

\* the records of the Key-for-Input Map stored under (txid, vout)
KeyRecords(op) ==
    {utxosByTxid[k].list[j] :
        <<k, j>> \in {<<k, j>> \in (DOMAIN utxosByTxid) \X (1..4) :
                        /\ j \in DOMAIN utxosByTxid[k].list
                        /\ utxosByTxid[k].txid = op[1]
                        /\ utxosByTxid[k].list[j].vout = op[2]}}

\* C5: once the inputs have their unlocking templates, the key of every
\* input (txid, vout) is the key of the map record stored under that txid
\* with exactly that vout.
C5_TwoFactorLookup ==
    sweepPc \in {"sign", "signAction"} =>
        /\ Len(templates) = Len(tx.inputs)
        /\ \A i \in DOMAIN tx.inputs :
              /\ KeyRecords(tx.inputs[i]) # {}
              /\ \A rec \in KeyRecords(tx.inputs[i]) : rec.privKey = templates[i]

C5_Witness ==
    /\ sweepPc = "sign"
    /\ \E i, j \in DOMAIN tx.inputs :
          /\ tx.inputs[i][1] = tx.inputs[j][1]
          /\ tx.inputs[i][2] # tx.inputs[j][2]
          /\ templates[i] # templates[j]

FeeAcceptable(p) == ~(p.sats > 1 /\ p.sats * 1000 > 10 * p.size)

\* C6: a proposal that passes the fee gate and has an input (txid, vout) with
\* no record in the Key-for-Input Map ends the attempt with the error that
\* names the first such input, and nothing is signed.
C6_MissingKeyNamed ==
    [][(/\ ProposalHandled
        /\ FeeAcceptable(sweepResp.body[1])
        /\ \E i \in DOMAIN sweepResp.body[1].inputs :
              KeyRecords(sweepResp.body[1].inputs[i]) = {})
       => LET ins == sweepResp.body[1].inputs
              first == CHOOSE i \in DOMAIN ins :
                          /\ KeyRecords(ins[i]) = {}
                          /\ \A h \in 1..(i - 1) : KeyRecords(ins[h]) # {}
          IN  /\ sweepPc' = "idle"
              /\ templates' = <<>>
              /\ consoleError' =
                    Err("Failed to find private key for input", ins[first])]_vars

\* C7: every record of the Key-for-Input Map holds the key derived along the
\* stored pathPrefix and index of the Registry entry that owns the output,
\* whatever prefix the form holds when the sweep is invoked.
C7_PathPreservation ==
    utxosByTxid # <<>> =>
        \A i \in DOMAIN sweepResults :
            \A j \in DOMAIN sweepResults[i].utxos :
                LET e == sweepResults[i]
                    recs == KeyRecords(Outpoint(e.utxos[j]))
                IN  /\ recs # {}
                    /\ \A rec \in recs :
                          rec.privKey.path =
                             NormalizeQuotes(Append(e.pathPrefix, Seg(e.index, "")))

C7_Witness ==
    /\ sweepPc = "beef"
    /\ utxosByTxid # <<>>
    /\ \E i, j \in DOMAIN sweepResults :
          NormalizeQuotes(sweepResults[i].pathPrefix)
             # NormalizeQuotes(sweepResults[j].pathPrefix)

\* C8: no Registry entry holds an output flagged as spent in a pending
\* transaction, and its balance counts unflagged outputs only.
C8_NoPendingOutputs ==
    \A i \in DOMAIN results :
        \A j \in DOMAIN results[i].utxos :
            ~results[i].utxos[j].isSpentInMempoolTx

\* C9: no create-action request carries an output consumed by an earlier
\* successful sweep of the session.
C9_NoResubmission ==
    sweepPc = "create" =>
        \A i \in DOMAIN inputs :
            inputs[i].outpoint \notin (mempoolSpent \ InitiallyPending)

\* C10: the step that completes a scan keeps every Registry entry in place
\* and unchanged, and adds every finding whose address was not yet present.
C10_ScanUnionsRegistry ==
    [][(scanPc # "idle" /\ scanPc' = "idle") =>
        /\ Len(results') >= Len(results)
        /\ \A i \in DOMAIN results : results'[i] = results[i]
        /\ \A j \in DOMAIN usedResults :
              (\A i \in DOMAIN results :
                   results[i].address # usedResults[j].address)
              => \E i \in DOMAIN results' : results'[i] = usedResults[j]]_vars

C10_Witness ==
    /\ scanPc = "idle"
    /\ scans = 2
    /\ sweeps = 0
    /\ \E i, j \in DOMAIN results :
          /\ i < j
          /\ NormalizeQuotes(results[i].pathPrefix)
                # NormalizeQuotes(results[j].pathPrefix)

(***************************************************************************)
(* Scanner                                                                 *)
(***************************************************************************)
\* the requests of a caller that wait in the queue or are being fetched
Outstanding(caller) ==
    {i \in DOMAIN requestQueue : requestQueue[i].caller = caller}

InFlightOf(caller) == workerPc = "fetch" /\ inFlight.caller = caller

ScanFailed == lastScan.returned /\ lastScan.error # NoError

ScanSucceeded == lastScan.returned /\ lastScan.error = NoError

\* C11: when the check at index k fails, the scan returns in that very step:
\* it enqueues nothing more (no request for an index above k, no second
\* request for k), and the Registry then holds every entry it held and every
\* finding of this pass, all of them from indices below k, and nothing else.
C11_ScanFailurePolicy ==
    [][ScanFailed' =>
          /\ scanPc' = "idle"
          /\ requestQueue' = requestQueue
          /\ Outstanding("scan")' = {} /\ ~InFlightOf("scan")'
          /\ \A j \in DOMAIN results : results'[j] = results[j]
          /\ \A f \in Range(usedResults) :
                /\ f.index < lastScan'.index
                /\ \E e \in Range(results') : e.address = f.address
          /\ Range(results') \subseteq Range(results) \cup Range(usedResults)
          /\ \A c \in Range(lastScan'.visited) : c.index < lastScan'.index]_vars

\* a scan failed after a finding, with an older entry in the Registry
C11_Witness ==
    /\ ScanFailed
    /\ lastScan.findings # <<>>
    /\ lastScan.index > lastScan.startOffset
    /\ \E e \in Range(results) : e \notin Range(lastScan.findings)
    /\ \A f \in Range(lastScan.findings) : f \in Range(results)

AllUnused(log, from, to) == \A j \in from..to : ~log[j].isUsed

UsedIndices(log) == {log[j].index : j \in {h \in DOMAIN log : log[h].isUsed}}

Max(S) == CHOOSE x \in S : \A y \in S : y <= x

NoProviderError(log) == \A j \in DOMAIN log : log[j].listed

UsageAsOnChain(log) ==
    \A j \in DOMAIN log : log[j].isUsed = (log[j].address \in UsedAddresses)

\* C12: a scan with gap limit N >= 1 that met no provider error has checked
\* startOffset, startOffset + 1, ... once each in this order; while it runs
\* its last N checks are not all unused; when it returns the last N are, no
\* earlier N consecutive ones were, and the index cursor is L + 1 + N for the
\* last used index L, or startOffset + N when no checked address is used.
C12_GapLimitTermination ==
    /\ (scanPc # "idle" /\ NoProviderError(visited)) =>
          /\ \A j \in DOMAIN visited :
                /\ visited[j].index = startOffset + j - 1
                /\ visited[j].address =
                      ToAddress(Derive(scanSeed,
                                       FullPath(scanPrefix, visited[j].index)))
          /\ UsageAsOnChain(visited)
          /\ index = startOffset + Len(visited)
          /\ \A j \in DOMAIN visited :
                j >= scanGap => ~AllUnused(visited, j - scanGap + 1, j)
    /\ (ScanSucceeded /\ lastScan.gap >= 1 /\ NoProviderError(lastScan.visited)) =>
          LET log == lastScan.visited
              N == lastScan.gap
          IN  /\ \A j \in DOMAIN log : log[j].index = lastScan.startOffset + j - 1
              /\ UsageAsOnChain(log)
              /\ lastScan.index = lastScan.startOffset + Len(log)
              /\ Len(log) >= N
              /\ AllUnused(log, Len(log) - N + 1, Len(log))
              /\ \A j \in N..(Len(log) - 1) : ~AllUnused(log, j - N + 1, j)
              /\ lastScan.index =
                    IF UsedIndices(log) = {} THEN lastScan.startOffset + N
                    ELSE Max(UsedIndices(log)) + 1 + N

\* a scan from offset 0 with gap limit 2 returned after two used addresses
C12_Witness ==
    /\ ScanSucceeded
    /\ NoProviderError(lastScan.visited)
    /\ lastScan.gap = 2
    /\ lastScan.startOffset = 0
    /\ UsedIndices(lastScan.visited) = {0, 1}
    /\ lastScan.index = 4

\* a scan that found no used address returned
C12_WitnessNoneUsed ==
    /\ ScanSucceeded
    /\ NoProviderError(lastScan.visited)
    /\ lastScan.gap = 2
    /\ lastScan.startOffset = 1
    /\ UsedIndices(lastScan.visited) = {}
    /\ lastScan.index = 3

\* C13 as claimed: the findings of a scan that returned without error hold
\* every checked address whose history was not empty.
C13_EveryUsedAddressFound ==
    ScanSucceeded =>
        \A c \in Range(lastScan.visited) :
            c.isUsed => \E f \in Range(lastScan.findings) : f.address = c.address

\* C13 amended: the findings of a scan that returned without error hold, for
\* every checked address with a non-empty history list and a non-empty
\* unspent list, one entry with that index, address and output count, and
\* hold no other entry.
C13_EveryFundedAddressFound ==
    ScanSucceeded =>
        /\ \A c \in Range(lastScan.visited) :
              (c.isUsed /\ c.count > 0) =>
                  \E f \in Range(lastScan.findings) :
                      /\ f.address = c.address
                      /\ f.index = c.index
                      /\ f.count = c.count
        /\ \A f \in Range(lastScan.findings) :
              \E c \in Range(lastScan.visited) :
                  c.isUsed /\ c.count > 0 /\ c.address = f.address

\* a scan returned after a used address with outputs and one without
C13_Witness ==
    /\ ScanSucceeded
    /\ \E c \in Range(lastScan.visited) : c.isUsed /\ c.count = 1
    /\ \E c \in Range(lastScan.visited) : c.isUsed /\ c.count = 0
    /\ Len(lastScan.findings) = 1

(***************************************************************************)
(* Dispatcher                                                              *)
(***************************************************************************)
\* a step in which the worker hands a request to fetch (lines 34-37)
Dispatches ==
    /\ workerPc' = "fetch"
    /\ ~(/\ workerPc = "fetch"
         /\ inFlight' = inFlight
         /\ Len(requestQueue') >= Len(requestQueue))

\* C14: in every step the queue loses at most its oldest request, which is
\* the one dispatched, gains at most one request, behind all that wait, and
\* keeps the others in order; a request dispatched in the step it is enqueued
\* in found the queue empty.  Hence requests are dispatched in the order of
\* the calls of queuedFetch.
C14_DispatcherFifo ==
    [][\E k \in {0, 1}, n \in {0, 1} :
          /\ k <= Len(requestQueue)
          /\ Len(requestQueue') = Len(requestQueue) - k + n
          /\ \A j \in 1..(Len(requestQueue) - k) :
                requestQueue'[j] = requestQueue[j + k]
          /\ (k = 1) => (Dispatches /\ inFlight' = Head(requestQueue) /\ n = 0)
          /\ (k = 0 /\ Dispatches) => (requestQueue = <<>> /\ n = 0)
          /\ (k = 0 /\ n = 0 /\ ~Dispatches) => requestQueue' = requestQueue]_vars

\* the sweep's request is being fetched while the scan's, enqueued later, waits
C14_Witness ==
    /\ workerPc = "fetch"
    /\ inFlight.caller = "sweep"
    /\ Len(requestQueue) = 1
    /\ requestQueue[1].caller = "scan"
    /\ ~elapsed

\* two requests wait for the timer in the order of their calls
C14_WitnessTwoWaiting ==
    /\ workerPc = "timer"
    /\ Len(requestQueue) = 2
    /\ requestQueue[1].caller = "scan"
    /\ requestQueue[2].caller = "sweep"

\* C15: a request is dispatched only when at least MIN_INTERVAL has passed
\* since the previous dispatch, also by a worker that was started again
\* after the queue had emptied; the dispatch starts a new interval.
C15_DispatcherRateLimit ==
    [][Dispatches => (elapsed /\ ~elapsed')]_vars

\* a worker started again by the scan's next request waits on the timer
C15_Witness ==
    /\ workerPc = "timer"
    /\ ~elapsed
    /\ sweeps = 0
    /\ Len(visited) >= 1
    /\ Len(requestQueue) = 1

Waits(caller) ==
    IF caller = "scan" THEN scanPc \in {"history", "unspent"}
    ELSE sweepPc = "beef"

RespOf(caller) == IF caller = "scan" THEN scanResp ELSE sweepResp

RespNext(caller) == IF caller = "scan" THEN scanResp' ELSE sweepResp'

Settled(caller) == Waits(caller) /\ RespOf(caller) # NoResp

Request(caller) ==
    IF caller = "scan"
    THEN [caller |-> "scan", op |-> scanPc, target |-> inFlightAddress]
    ELSE [caller |-> "sweep", op |-> "beef",
          target |-> utxosByTxid[beefCursor].txid]

\* each caller that waits has its one request in exactly one place: in the
\* queue, with fetch, or answered; a caller that does not wait has none
OneRequestPerCaller ==
    \A caller \in {"scan", "sweep"} :
        /\ Cardinality(Outstanding(caller))
             + (IF InFlightOf(caller) THEN 1 ELSE 0)
             + (IF Settled(caller) THEN 1 ELSE 0)
             = (IF Waits(caller) THEN 1 ELSE 0)
        /\ \A i \in Outstanding(caller) : requestQueue[i] = Request(caller)
        /\ InFlightOf(caller) => inFlight = Request(caller)

\* a request that waits has a running worker
WorkerServesQueue ==
    /\ isProcessing = (workerPc # "idle")
    /\ requestQueue # <<>> => workerPc # "idle"
    /\ workerPc = "fetch" => inFlight # NoItem

\* a step in which the fetch in flight settles
Settles == workerPc = "fetch" /\ (inFlight' # inFlight \/ workerPc' # "fetch")

\* C16: every request is in the queue, with fetch or answered, exactly once,
\* from its enqueue to the moment its caller reads the answer; the answer is
\* the result or the error of that very request and goes to its caller only;
\* after a failed fetch the worker goes on with the requests that wait.
C16_DispatcherPropagation ==
    /\ [](OneRequestPerCaller /\ WorkerServesQueue)
    /\ [][/\ Settles =>
               LET caller == inFlight.caller
                   other == IF caller = "scan" THEN "sweep" ELSE "scan"
               IN  /\ RespOf(caller) = NoResp
                   /\ RespNext(caller) \in
                         {Respond(inFlight, kind, mempoolSpent) :
                             kind \in RespKinds(inFlight.op)}
                   /\ RespNext(other) = RespOf(other)
                   /\ requestQueue # <<>> =>
                         /\ workerPc' \in {"timer", "fetch"}
                         /\ \/ requestQueue' = requestQueue
                            \/ /\ requestQueue' = Tail(requestQueue)
                               /\ inFlight' = Head(requestQueue)
          /\ \A caller \in {"scan", "sweep"} :
               (Waits(caller) /\ RespOf(caller) = NoResp
                   /\ RespNext(caller) # NoResp) =>
                      (Settles /\ inFlight.caller = caller)]_vars

\* the scan's fetch failed while the sweep's request waited, and the worker
\* went on to the sweep's request
C16_Witness ==
    /\ scanResp.kind = "throws"
    /\ scanPc = "history"
    /\ workerPc \in {"timer", "fetch"}
    /\ Cardinality(Outstanding("sweep")) + (IF InFlightOf("sweep") THEN 1 ELSE 0) = 1

(***************************************************************************)
(* Sweep preconditions, protocol order and the createAction request        *)
(***************************************************************************)
\* a step in which createIngestTx reads the answer of isAuthenticated
AuthAnswered == sweepPc = "auth" /\ sweepResp # NoResp /\ sweepResp' = NoResp

\* a return of createIngestTx that has changed nothing and called nobody
ReturnsUntouched ==
    /\ sweepPc' = "idle"
    /\ results' = results
    /\ txHex' = txHex
    /\ isLoading' = isLoading
    /\ mempoolSpent' = mempoolSpent
    /\ dispatcherVars' = dispatcherVars
    /\ utxosByTxid' = <<>> /\ inputs' = <<>> /\ templates' = <<>>
    /\ consoleError' = NoError

NothingStarted ==
    /\ utxosByTxid = <<>> /\ inputs = <<>> /\ templates = <<>>
    /\ beef = {} /\ tx = NoTx
    /\ Outstanding("sweep") = {} /\ ~InFlightOf("sweep")

\* C17: until isAuthenticated has answered the sweep has derived no key and
\* asked nothing of the data provider; when the answer is "not
\* authenticated" or an error the sweep returns with the Registry, the
\* transaction result and the queue as they were, without createAction or
\* signAction, and shows the operator the connection message.
C17_AuthRefusal ==
    /\ [](sweepPc = "auth" => NothingStarted)
    /\ [][(AuthAnswered
             /\ (sweepResp.kind = "throw" \/ sweepResp.body = <<FALSE>>)) =>
               (ReturnsUntouched
                  /\ alertMsg' = "Unable to connect to wallet")]_vars

\* a sweep of a Registry that is not empty was refused
C17_Witness ==
    /\ alertMsg = "Unable to connect to wallet"
    /\ sweepPc = "idle"
    /\ Len(results) > 0

\* C18 as claimed: createIngestTx called with an empty Registry returns with
\* the no-funds message whatever the custodian answers, and changes nothing.
C18_EmptyRegistryNoFunds ==
    [][(AuthAnswered /\ Len(sweepResults) = 0) =>
          (ReturnsUntouched /\ alertMsg' = "No outputs found to ingest")]_vars

\* C18 amended: createIngestTx called with an empty Registry changes nothing
\* and calls neither the data provider nor createAction nor signAction; it
\* returns with the no-funds message when the custodian reports authenticated
\* and with the connection message when it does not or cannot be reached.
C18_EmptyRegistryNoOp ==
    /\ [](sweepPc = "auth" => NothingStarted)
    /\ [][(AuthAnswered /\ Len(sweepResults) = 0) =>
             /\ ReturnsUntouched
             /\ alertMsg' =
                   IF sweepResp.kind = "ok" /\ sweepResp.body = <<TRUE>>
                   THEN "No outputs found to ingest"
                   ELSE "Unable to connect to wallet"]_vars

\* a call on an empty Registry, after a sweep that left a transaction result,
\* returned with the no-funds message
C18_Witness ==
    /\ alertMsg = "No outputs found to ingest"
    /\ sweepPc = "idle"
    /\ results = <<>>
    /\ txHex # <<>>

SweepOutpoints(rs) ==
    UNION {{Outpoint(rs[i].utxos[j]) : j \in DOMAIN rs[i].utxos} : i \in DOMAIN rs}

RECURSIVE CountOutputs(_)
CountOutputs(rs) ==
    IF rs = <<>> THEN 0 ELSE Len(rs[1].utxos) + CountOutputs(Tail(rs))

MapTxids(map) == {map[k].txid : k \in DOMAIN map}

\* the order in which one attempt may move through its steps
StepOrder ==
    {<<"idle", "auth">>, <<"auth", "beef">>, <<"auth", "create">>,
     <<"beef", "beef">>, <<"beef", "create">>, <<"create", "sign">>,
     <<"sign", "signAction">>,
     <<"auth", "idle">>, <<"beef", "idle">>, <<"create", "idle">>,
     <<"sign", "idle">>, <<"signAction", "idle">>}

C20_CreateActionInputs ==
    sweepPc = "create" =>
        LET req == CreateActionRequest
        IN  /\ DOMAIN req = {"inputBEEF", "description", "inputs"}
            /\ Len(req.inputs) = CountOutputs(sweepResults)
            /\ {req.inputs[i].outpoint : i \in DOMAIN req.inputs} =
                  SweepOutpoints(sweepResults)
            /\ \A i, j \in DOMAIN req.inputs :
                  req.inputs[i].outpoint = req.inputs[j].outpoint => i = j
            /\ \A i \in DOMAIN req.inputs :
                  /\ DOMAIN req.inputs[i] =
                        {"inputDescription", "unlockingScriptLength", "outpoint"}
                  /\ req.inputs[i].inputDescription = "from mnemonic"
                  /\ req.inputs[i].unlockingScriptLength = 108
                  /\ req.inputs[i].outpoint \in AllOutpoints
            /\ req.inputBEEF \subseteq
                  UNION {BeefOf(op[1]) : op \in SweepOutpoints(sweepResults)}

\* createAction is called for a Registry with two outputs of one transaction
\* and one of another
C20_Witness ==
    /\ sweepPc = "create"
    /\ sweepResp = NoResp
    /\ Len(inputs) = 3
    /\ Len(utxosByTxid) = 2

(***************************************************************************)
(* Signing request, ancestry, derivation and disclosure                    *)
(***************************************************************************)
\* C21: the signAction request of an attempt carries the reference that the
\* createAction of the same attempt returned, holds an unlocking script for
\* every input index 0..n-1 of the proposed transaction, each made for the
\* input of that index, and asks for non-delayed broadcast returning only
\* the transaction id.
C21_SignActionRequest ==
    /\ [](sweepPc = "signAction" =>
            /\ SignActionRequest.reference = sweeps
            /\ DOMAIN SignActionRequest.spends = 0..(Len(tx.inputs) - 1)
            /\ \A i \in DOMAIN tx.inputs :
                  SignActionRequest.spends[i - 1].unlockingScript
                      .signature.preimage.spent = tx.inputs[i]
            /\ SignActionRequest.options =
                  [acceptDelayedBroadcast |-> FALSE, returnTXIDOnly |-> TRUE])
    /\ [][/\ (sweepPc = "create" /\ sweepPc' = "sign") =>
                tx'.reference = sweepResp.body[1].reference
          /\ (sweepPc = "sign" /\ sweepPc' = "signAction") =>
                SignActionRequest'.reference = tx.reference]_vars

C21_Witness ==
    /\ sweepPc = "signAction"
    /\ sweeps = 2
    /\ Len(tx.inputs) >= 2
    /\ SignActionRequest.reference = 2

\* the source transactions of the outputs of a Registry
SourceTxids(rs) == {op[1] : op \in SweepOutpoints(rs)}

\* the ancestry requests of the sweep that the dispatcher holds
SweepRequests ==
    Cardinality(Outstanding("sweep")) + (IF InFlightOf("sweep") THEN 1 ELSE 0)

\* C22: an attempt issues its ancestry fetches one at a time, each for a
\* source transaction of the Registry it read that it has not asked for
\* before; when createAction is called exactly one fetch has been issued for
\* each distinct source transaction, however many outputs share it, and the
\* bundle handed over is the merge of the bundles of all of them.
C22_AncestryGathering ==
    /\ [](/\ sweepPc = "beef" =>
               /\ beefCursor \in 1..Cardinality(SourceTxids(sweepResults))
               /\ \A k, l \in 1..beefCursor :
                     utxosByTxid[k].txid = utxosByTxid[l].txid => k = l
               /\ \A k \in 1..beefCursor :
                     utxosByTxid[k].txid \in SourceTxids(sweepResults)
               /\ beef = UNION {BeefOf(utxosByTxid[k].txid) :
                                   k \in 1..(beefCursor - 1)}
               /\ SweepRequests + (IF sweepResp # NoResp THEN 1 ELSE 0) = 1
          /\ sweepPc = "create" =>
               /\ beefCursor - 1 = Cardinality(SourceTxids(sweepResults))
               /\ {utxosByTxid[k].txid : k \in 1..(beefCursor - 1)} =
                     SourceTxids(sweepResults)
               /\ CreateActionRequest.inputBEEF =
                     UNION {BeefOf(txid) : txid \in SourceTxids(sweepResults)}
          /\ sweepPc \notin {"beef"} => SweepRequests = 0)
    /\ [][/\ SweepRequests' > SweepRequests =>
               /\ SweepRequests' = SweepRequests + 1
               /\ sweepPc' = "beef"
               /\ beefCursor' = beefCursor + 1
               /\ \/ requestQueue' # <<>>
                       /\ requestQueue'[Len(requestQueue')] =
                             [caller |-> "sweep", op |-> "beef",
                              target |-> utxosByTxid'[beefCursor'].txid]
                  \/ inFlight' = [caller |-> "sweep", op |-> "beef",
                                  target |-> utxosByTxid'[beefCursor'].txid]
          /\ (beefCursor' # beefCursor /\ sweepPc' = "beef") =>
               SweepRequests' = SweepRequests + 1
          /\ beefCursor' \in {beefCursor, beefCursor + 1, 0}]_vars

\* createAction is called after two fetches for a Registry of three outputs,
\* two of them of the same source transaction
C22_Witness ==
    /\ sweepPc = "create"
    /\ beefCursor = 3
    /\ CountOutputs(sweepResults) = 3
    /\ CreateActionRequest.inputBEEF = {"t0", "t1", "t2"}

\* C24: for an output of a Registry entry, the key that the sweep derives
\* from the seed the discovery used (same mnemonic and PIN) along the entry's
\* path prefix and index is the key the discovery derived, and its address is
\* the address the discovery recorded.
C24_SameKeyInBothPhases ==
    utxosByTxid # <<>> =>
        \A i \in DOMAIN sweepResults :
            \A j \in DOMAIN sweepResults[i].utxos :
                LET e == sweepResults[i]
                IN  \A rec \in KeyRecords(Outpoint(e.utxos[j])) :
                        rec.privKey.seed = e.address.pkh.seed =>
                            /\ rec.privKey = e.address.pkh
                            /\ ToAddress(rec.privKey) = e.address

\* the sweep has derived, with the discovery's mnemonic, the keys of an entry
\* found under the prefix typed with a typographic quote
C24_Witness ==
    /\ sweepPc = "beef"
    /\ \E i \in DOMAIN sweepResults :
          /\ sweepResults[i].pathPrefix = PrefixBip44Curly
          /\ \E rec \in KeyRecords(Outpoint(sweepResults[i].utxos[1])) :
                /\ rec.privKey.seed = sweepResults[i].address.pkh.seed
                /\ ToAddress(rec.privKey) = sweepResults[i].address

\* output lists a transaction could be given after it was signed
OutputLists == {<<>>, <<"wallet">>, <<"other">>, <<"wallet", "other">>}

\* C25: in the signAction request every input of the transaction has an
\* unlocking script whose signature was made with signOutputs 'all' and
\* without anyone-can-pay; it commits to the whole input list and the whole
\* output list, so with any other output list it is no signature of the
\* transaction.
C25_SighashAll ==
    sweepPc = "signAction" =>
        \A i \in DOMAIN tx.inputs :
            LET sig == SignActionRequest.spends[i - 1].unlockingScript.signature
            IN  /\ sig.signOutputs = "all"
                /\ ~sig.anyoneCanPay
                /\ sig.preimage.inputs = tx.inputs
                /\ sig.preimage.outputs = tx.outputs
                /\ \A outs \in OutputLists :
                      outs # tx.outputs =>
                          sig.preimage #
                              SighashPreimage([tx EXCEPT !.outputs = outs], i,
                                              sig.signOutputs, sig.anyoneCanPay)

\* three inputs have been signed and are being submitted
C25_Witness ==
    /\ sweepPc = "signAction"
    /\ Len(tx.inputs) = 3
    /\ \A i \in 0..2 :
          SignActionRequest.spends[i].unlockingScript.signature.preimage.outputs
              = WalletOutputs

\* what the handlers that are under way have written with console.log:
\* { address } at line 107 and { results } at line 164
ConsoleLog ==
    (IF scanPc \in {"history", "unspent"}
     THEN {[address |-> inFlightAddress]} ELSE {})
    \cup (IF sweepPc \in {"beef", "create", "sign", "signAction"}
          THEN {[results |-> sweepResults]} ELSE {})

\* the shapes of the values that may leave the process: an address (the hash
\* of a public key), a public key, a transaction id, an outpoint; a mnemonic,
\* a PIN, a seed <<mnemonic, PIN>> and a private key [seed, path] have none
\* of them
IsAddress(v) == DOMAIN v = {"pkh"}

IsPublicKey(v) == DOMAIN v = {"pub"}

Txids == {op[1] : op \in AllOutpoints} \cup {"t0"}

IsOutpoint(v) == DOMAIN v = 1..2 /\ v[1] \in Txids /\ v[2] \in 0..9

ProviderRequestClean(item) ==
    \/ item.op \in {"history", "unspent"} /\ IsAddress(item.target)
    \/ item.op = "beef" /\ item.target \in Txids

EntryClean(e) ==
    /\ DOMAIN e = {"index", "address", "balance", "count", "utxos", "pathPrefix"}
    /\ e.index \in Nat
    /\ IsAddress(e.address)
    /\ e.balance \in Nat
    /\ e.count \in Nat
    /\ \A j \in DOMAIN e.utxos :
          DOMAIN e.utxos[j] = {"tx_hash", "tx_pos", "value", "isSpentInMempoolTx"}
    /\ \A j \in DOMAIN e.pathPrefix :
          DOMAIN e.pathPrefix[j] = {"n", "mark"}

ErrorMessages ==
    {"", "external", "TypeError", "Failed to create action",
     "Fee too high, aborting", "Failed to find private key for input",
     "Failed to broadcast transaction"}

\* C26: every request held by the dispatcher asks for an address or for a
\* transaction id; the createAction request holds transaction ids, a fixed
\* description and outpoints; the signAction request holds the reference,
\* signatures with public keys, and two flags; console.log has written
\* addresses and Registry entries, which hold no key, and console.error an
\* error message with at most an outpoint: no mnemonic, PIN, seed or private
\* key is in any of them.
C26_NoSecretLeaves ==
    /\ \A i \in DOMAIN requestQueue : ProviderRequestClean(requestQueue[i])
    /\ workerPc = "fetch" => ProviderRequestClean(inFlight)
    /\ sweepPc = "create" =>
          /\ DOMAIN CreateActionRequest = {"inputBEEF", "description", "inputs"}
          /\ CreateActionRequest.inputBEEF \subseteq Txids
          /\ CreateActionRequest.description = "Ingesting Swept funds from mnemonic"
          /\ \A i \in DOMAIN CreateActionRequest.inputs :
                LET in == CreateActionRequest.inputs[i]
                IN  /\ DOMAIN in = {"inputDescription", "unlockingScriptLength",
                                    "outpoint"}
                    /\ in.inputDescription = "from mnemonic"
                    /\ in.unlockingScriptLength = UnlockingScriptLength
                    /\ IsOutpoint(in.outpoint)
    /\ sweepPc = "signAction" =>
          /\ DOMAIN SignActionRequest = {"reference", "spends", "options"}
          /\ SignActionRequest.reference \in Nat
          /\ SignActionRequest.options \in
                [acceptDelayedBroadcast : BOOLEAN, returnTXIDOnly : BOOLEAN]
          /\ \A i \in DOMAIN SignActionRequest.spends :
                LET spend == SignActionRequest.spends[i]
                IN  /\ DOMAIN spend = {"unlockingScript"}
                    /\ DOMAIN spend.unlockingScript = {"signature", "publicKey"}
                    /\ IsPublicKey(spend.unlockingScript.publicKey)
                    /\ DOMAIN spend.unlockingScript.signature =
                          {"signer", "signOutputs", "anyoneCanPay", "preimage"}
                    /\ IsPublicKey(spend.unlockingScript.signature.signer)
                    /\ DOMAIN spend.unlockingScript.signature.preimage =
                          {"spent", "inputs", "outputs"}
    /\ \A line \in ConsoleLog :
          \/ DOMAIN line = {"address"} /\ IsAddress(line.address)
          \/ DOMAIN line = {"results"}
                /\ \A i \in DOMAIN line.results : EntryClean(line.results[i])
    /\ consoleError.msg \in ErrorMessages
    /\ consoleError.outpoint # <<>> => IsOutpoint(consoleError.outpoint)

\* a scan and a sweep are under way: an address request is with the provider
\* and a signAction request with the custodian, after both handlers logged
C26_Witness ==
    /\ sweepPc = "signAction"
    /\ workerPc = "fetch"
    /\ inFlight.op = "history"
    /\ Cardinality(ConsoleLog) = 2
    /\ Len(tx.inputs) >= 2

\* the requests of the scan that the dispatcher holds
ScanRequests ==
    Cardinality(Outstanding("scan")) + (IF InFlightOf("scan") THEN 1 ELSE 0)

\* the request the scan has issued in a step: the newest of the queue or,
\* when the worker took it at once, the one in flight
ScanIssues(item) ==
    \/ requestQueue' # <<>> /\ requestQueue'[Len(requestQueue')] = item
    \/ requestQueue' = <<>> /\ workerPc' = "fetch" /\ inFlight' = item

\* C27: a scan has at most one request with the dispatcher, and has one
\* exactly while it waits; it issues a request only when it has none left,
\* the history lookup of an index first, the unspent-outputs lookup of the
\* same index only on a non-empty history, and the history lookup of the
\* next index only after the lookups of the index before were answered.
C27_ScannerSequencing ==
    /\ [](/\ ScanRequests + (IF scanResp # NoResp THEN 1 ELSE 0) =
                (IF scanPc \in {"history", "unspent"} THEN 1 ELSE 0)
          /\ \A i \in Outstanding("scan") :
                requestQueue[i] = [caller |-> "scan", op |-> scanPc,
                                   target |-> inFlightAddress]
          /\ InFlightOf("scan") =>
                inFlight = [caller |-> "scan", op |-> scanPc,
                            target |-> inFlightAddress])
    /\ [][/\ ScanRequests' > ScanRequests =>
               /\ ScanRequests = 0
               /\ scanResp' = NoResp
               /\ scanPc' \in {"history", "unspent"}
               /\ ScanIssues([caller |-> "scan", op |-> scanPc',
                              target |-> inFlightAddress'])
               /\ scanPc' = "unspent" =>
                     /\ scanPc = "history"
                     /\ scanResp.kind = "ok"
                     /\ Len(scanResp.body) > 0
                     /\ index' = index
                     /\ inFlightAddress' = inFlightAddress
               /\ scanPc' = "history" =>
                     \/ scanPc = "idle" /\ index' = startOffset'
                     \/ /\ scanPc = "history"
                        /\ scanResp # NoResp
                        /\ ~(scanResp.kind = "ok" /\ Len(scanResp.body) > 0)
                        /\ index' = index + 1
                     \/ /\ scanPc = "unspent"
                        /\ scanResp # NoResp
                        /\ index' = index + 1
          /\ (scanPc \in {"history", "unspent"} /\ scanResp = NoResp) =>
               (scanPc' = scanPc /\ index' = index
                  /\ ScanRequests' <= ScanRequests)]_vars

\* the unspent-outputs lookup of the second index is in flight
C27_Witness ==
    /\ scanPc = "unspent"
    /\ index = startOffset + 1
    /\ InFlightOf("scan")
    /\ inFlight.op = "unspent"
    /\ Len(visited) = 1

\* C28: whenever no invocation of discovery or sweep is under way, whatever
\* the outcome of the invocations that have returned, the busy status is
\* empty, so that both entry points can be invoked again.
C28_ReturnsToIdle ==
    (scanPc = "idle" /\ sweepPc = "idle") => isLoading = ""

\* C29: when a scan returns because a lookup of the data provider failed,
\* what it leaves to its caller (the Registry, the transaction field, the
\* busy status and the alert) is not what a scan that ran to the gap limit
\* with the same findings leaves.
C29_ProviderErrorSurfaces ==
    [][(/\ scanPc \in {"history", "unspent"}
        /\ lastScan'.returned
        /\ lastScan'.error # NoError)
       => <<results', txHex', isLoading', alertMsg'>> #
             <<UpdatedResults(results, lastScan'.findings), <<>>, "", NoAlert>>]_vars

(***************************************************************************)
(* Dispatcher progress, exclusion and the Registry's invariants            *)
(***************************************************************************)
\* the program with time passing, timers firing and every transport call
\* completing or failing
LiveSweeps == 1

\* the sessions that are followed with every gap limit and offset: at most
\* LiveSweeps sweeps, and the BIP-44 prefix in the form
LiveSession ==
    /\ sweeps' <= LiveSweeps
    /\ scanPrefix' \in {<<>>, PrefixBip44}
    /\ sweepPathPrefix' \in {<<>>, PrefixBip44}

NextLive ==
    \/ IntervalPasses /\ LiveSession
    \/ TimerFire /\ LiveSession
    \/ FetchSettle /\ LiveSession
    \/ WalletSettle /\ LiveSession
    \/ ScanStart /\ LiveSession
    \/ ScanHistoryDone /\ LiveSession
    \/ ScanUnspentDone /\ LiveSession
    \/ SweepStart /\ LiveSession
    \/ SweepAuthDone /\ LiveSession
    \/ SweepBeefDone /\ LiveSession
    \/ SweepCreateDone /\ LiveSession
    \/ SweepSignDone /\ LiveSession
    \/ SweepSignActionDone /\ LiveSession

SpecLive ==
    /\ Init
    /\ [][NextLive]_vars
    /\ WF_vars(IntervalPasses)
    /\ WF_vars(TimerFire)
    /\ WF_vars(FetchSettle)

PathGap == 1

\* the sessions in which the prefixes are followed: every prefix in the
\* form, a gap limit of at most PathGap and offset 0
PathSession ==
    /\ sweeps' <= MaxSweeps
    /\ scanGap' <= PathGap
    /\ startOffset' = 0

NextPaths ==
    \/ IntervalPasses /\ PathSession
    \/ TimerFire /\ PathSession
    \/ FetchSettle /\ PathSession
    \/ WalletSettle /\ PathSession
    \/ ScanStart /\ PathSession
    \/ ScanHistoryDone /\ PathSession
    \/ ScanUnspentDone /\ PathSession
    \/ SweepStart /\ PathSession
    \/ SweepAuthDone /\ PathSession
    \/ SweepBeefDone /\ PathSession
    \/ SweepCreateDone /\ PathSession
    \/ SweepSignDone /\ PathSession
    \/ SweepSignActionDone /\ PathSession

SpecPaths == Init /\ [][NextPaths]_vars

\* the sessions of NextPaths with createIngestTx also called on an empty
\* Registry
NextEntryPaths ==
    \/ IntervalPasses /\ PathSession
    \/ TimerFire /\ PathSession
    \/ FetchSettle /\ PathSession
    \/ WalletSettle /\ PathSession
    \/ ScanStart /\ PathSession
    \/ ScanHistoryDone /\ PathSession
    \/ ScanUnspentDone /\ PathSession
    \/ SweepStart /\ PathSession
    \/ SweepAuthDone /\ PathSession
    \/ SweepBeefDone /\ PathSession
    \/ SweepCreateDone /\ PathSession
    \/ SweepSignDone /\ PathSession
    \/ SweepSignActionDone /\ PathSession
    \/ SweepInvoke /\ PathSession

SpecEntryPaths == Init /\ [][NextEntryPaths]_vars

\* C31: whenever the queue holds a request, isProcessing is true and a
\* worker loop is under way, waiting for its timer or for a fetch; and every
\* request that is queued or in flight is eventually answered to its caller.
C31_NoStrandedRequest ==
    /\ [](requestQueue # <<>> =>
             (isProcessing /\ workerPc \in {"timer", "fetch"}))
    /\ \A caller \in {"scan", "sweep"} :
          (Outstanding(caller) # {} \/ InFlightOf(caller))
              ~> (RespOf(caller) # NoResp)

\* the second request of a scan is in flight and a request of the sweep
\* waits in the queue behind it
C31_Witness ==
    /\ workerPc = "fetch"
    /\ inFlight.caller = "scan"
    /\ inFlight.op = "unspent"
    /\ requestQueue # <<>>
    /\ requestQueue[1].caller = "sweep"

\* C32: at most one call of processQueue has not returned and at most one
\* fetch has not settled, in every state; isProcessing is set exactly while
\* that one worker runs, also while the scan and the sweep both have a
\* request with the dispatcher.
C32_SingleWorkerSingleFetch ==
    /\ workers \in {0, 1}
    /\ fetches \in {0, 1}
    /\ isProcessing = (workers = 1)
    /\ (workerPc = "fetch") = (fetches = 1)
    /\ fetches <= workers

\* the sweep's request is in flight while the request of a scan waits
C32_Witness ==
    /\ workers = 1
    /\ fetches = 1
    /\ inFlight.caller = "sweep"
    /\ requestQueue # <<>>
    /\ requestQueue[1].caller = "scan"

\* C33: a discovery scan and a sweep are never under way at the same time.
C33_OneOperationAtATime == ~(scanPc # "idle" /\ sweepPc # "idle")

\* C34: the step that empties the Registry after a broadcast discards only
\* entries that the sweep had read and whose outputs are all inputs of the
\* transaction that was broadcast.
C34_ClearOnlyConsumed ==
    [][(sweepPc = "signAction" /\ results # <<>> /\ results' = <<>>)
       => \A i \in DOMAIN results :
             /\ \E k \in DOMAIN sweepResults : sweepResults[k] = results[i]
             /\ \A j \in DOMAIN results[i].utxos :
                   \E n \in DOMAIN tx.inputs :
                       tx.inputs[n] = Outpoint(results[i].utxos[j])]_vars

\* C35: every key of the Key-for-Input Map is the key of the recorded
\* address of the Registry entry that owns the output, whatever mnemonic and
\* PIN the form holds when the sweep is invoked.
C35_SweepKeyIsEntryKey ==
    utxosByTxid # <<>> =>
        \A i \in DOMAIN sweepResults :
            \A j \in DOMAIN sweepResults[i].utxos :
                \A rec \in KeyRecords(Outpoint(sweepResults[i].utxos[j])) :
                    ToAddress(rec.privKey) = sweepResults[i].address

\* C36: in every step other than the completion of a successful sweep, every
\* Registry entry stays in the Registry with its index, address, path
\* prefix, balance, count and unspent-output list, and no entry with its
\* address but other contents appears.
C36_EntryImmutable ==
    [][~SweepSucceeds =>
          \A i \in DOMAIN results :
              /\ \E k \in DOMAIN results' : results'[k] = results[i]
              /\ \A k \in DOMAIN results' :
                    results'[k].address = results[i].address =>
                        results'[k] = results[i]]_vars

\* a scan has returned with a finding for an address that the Registry
\* holds with the prefix as it was typed in an earlier scan
C36_Witness ==
    /\ lastScan.returned
    /\ \E j \in DOMAIN lastScan.findings :
          \E i \in DOMAIN results :
              /\ results[i].address = lastScan.findings[j].address
              /\ results[i].pathPrefix # lastScan.findings[j].pathPrefix

\* C37: in every reachable state no two Registry entries have the same
\* address.
C37_UniqueAddresses ==
    \A i, j \in DOMAIN results :
        results[i].address = results[j].address => i = j

\* a scan has returned two findings of which the Registry already held the
\* second: it stands first in the Registry, before the other finding
C37_Witness ==
    /\ lastScan.returned
    /\ Len(lastScan.findings) = 2
    /\ Len(results) = 2
    /\ results[1] = lastScan.findings[2]
    /\ results[2] = lastScan.findings[1]

\* C38: in every reachable state every Registry entry has a non-empty list
\* of unspent outputs, a balance that is the sum of the values of the
\* outputs of that list, and a count that is the length of that list.
C38_EntryWellFormed ==
    \A i \in DOMAIN results :
        LET list == results[i].utxos
            sum[n \in 0..Len(list)] ==
                IF n = 0 THEN 0 ELSE sum[n - 1] + list[n].value
        IN  /\ Len(list) > 0
            /\ results[i].balance = sum[Len(list)]
            /\ results[i].count = Len(list)

\* the Registry holds an entry with two unspent outputs, of 2000 and 500
C38_Witness ==
    \E i \in DOMAIN results :
        /\ Len(results[i].utxos) = 2
        /\ results[i].utxos[1].value = 2000
        /\ results[i].utxos[2].value = 500
        /\ results[i].balance = 2500

(***************************************************************************)
(* The gap counter and the histories it counts                             *)
(***************************************************************************)
\* the number of most recently concluded checks, without interruption, whose
\* history was an empty list
RECURSIVE TrailingEmpty(_)
TrailingEmpty(log) ==
    IF log = <<>> THEN 0
    ELSE LET c == log[Len(log)]
         IN  IF c.listed /\ ~c.isUsed
             THEN 1 + TrailingEmpty(SubSeq(log, 1, Len(log) - 1))
             ELSE 0

\* C39: while a scan runs, consecutiveUnused is the number of most recently
\* checked addresses, without interruption, whose history was empty, and a
\* used address without unspent outputs has no entry among the findings.
C39_CounterCountsEmptyHistories ==
    scanPc # "idle" =>
        /\ consecutiveUnused = TrailingEmpty(visited)
        /\ \A c \in Range(visited) :
              (c.isUsed /\ c.count = 0) =>
                  \A j \in DOMAIN usedResults : usedResults[j].address # c.address

\* C40: a history response that is not a well-formed list ends the scan with
\* a logged error, and a check is concluded as unused only on a well-formed
\* empty list.
C40_OnlyEmptyListCountsUnused ==
    [][(scanPc = "history" /\ scanResp # NoResp /\ scanResp' = NoResp) =>
          LET log == IF scanPc' = "idle" THEN lastScan'.visited ELSE visited'
          IN  /\ scanResp.kind # "ok" =>
                    /\ scanPc' = "idle"
                    /\ lastScan'.returned
                    /\ lastScan'.error # NoError
                    /\ log = visited
              /\ (Len(log) = Len(visited) + 1 /\ ~log[Len(log)].isUsed) =>
                    (scanResp.kind = "ok" /\ scanResp.body = <<>>)]_vars

====
